---- MODULE Spec2Model ----
(***************************************************************************)
(* The /web_scrape endpoint of src/main.py (scrape_url) and its usage      *)
(* logger (log_api_usage), as a state machine.                             *)
(*                                                                         *)
(* Each request is a process that walks through scrape_url one external    *)
(* call at a time.  Every external call (Supabase table and storage calls, *)
(* the crawler, the text splitter, the embedding provider, Modal's spawn)  *)
(* is an opaque collaborator: the model draws its outcome from the ones    *)
(* the call can produce (a result, an error envelope, a raised exception). *)
(* The try/except structure of the handler decides what each outcome       *)
(* leads to.                                                               *)
(***************************************************************************)
EXTENDS Naturals, Sequences, FiniteSets

\* ------------------------------------------------------------------ bounds

\* Most chunks the text splitter returns for one page.
MaxChunks == 2

\* Concurrent requests the model follows.
Requests == {"r1", "r2"}

\* ------------------------------------------------------------------ values

\* Python's None.
None == "None"

\* Authorization header values a caller can send; None is an absent header.
Key1 == "11111111-1111-1111-1111-111111111111"
Key2 == "22222222-2222-2222-2222-222222222222"
Key3 == "33333333-3333-3333-3333-333333333333"
KeyUnknown == "99999999-9999-9999-9999-999999999999"
KeyBraced == "{11111111-1111-1111-1111-111111111111}"
Headers == {None, "", "not-a-uuid", Key1, Key2, Key3, KeyUnknown, KeyBraced}

\* uuid.UUID(auth_header) returns instead of raising ValueError: the braced
\* spelling of a UUID parses as well as the canonical one.
UUIDParses(h) == h \in {Key1, Key2, Key3, KeyUnknown, KeyBraced}

\* The api_keys table: the third row has no team association.
api_keys ==
    { [api_key |-> Key1, team_id |-> "team-1", user_id |-> "user-1"],
      [api_key |-> Key2, team_id |-> "team-2", user_id |-> "user-2"],
      [api_key |-> Key3, team_id |-> None, user_id |-> "user-3"] }

Urls == {"https://example.com"}
Markdowns == {"# page"}

\* Messages of the exceptions the collaborators raise.
LookupErr == "api_keys lookup raised"
FetchErr == "crawler raised"
SplitErr == "text splitter raised"
UploadErr == "storage upload raised"
EmbedErr == "embedding provider raised"
DocErr == "documents insert raised"
FileErr == "files insert raised"
SpawnErr == "spawn raised"

VARIABLES
    req,             \* per request: the locals of scrape_url and its position
    nextUuid,        \* source of fresh uuid4 values
    storage,         \* objects of the user-documents bucket
    documents,       \* rows of the documents table, in insertion order
    files,           \* rows of the files table
    spawned,         \* log_api_usage calls dispatched and not yet run
    dispatched,      \* every log_api_usage call a spawn has dispatched so far
    api_usage_logs,  \* rows of the api_usage_logs table
    printed          \* warnings log_api_usage printed

vars == <<req, nextUuid, storage, documents, files, spawned, dispatched, api_usage_logs, printed>>
stores == <<nextUuid, storage, documents, files>>
logger == <<spawned, dispatched, api_usage_logs, printed>>

NoExc == [type |-> "none", status_code |-> 0, detail |-> ""]
NoResponse == [bound |-> FALSE, data |-> FALSE, team_id |-> None, user_id |-> None]
NotReturned == [kind |-> "none"]

InitLocals ==
    [ pc |-> "idle",
      auth_header |-> None,
      url |-> None,
      response |-> NoResponse,
      team_id |-> None,
      markdown |-> None,
      file_id |-> 0,
      chunks |-> <<>>,
      k |-> 1,
      exc |-> NoExc,
      returned |-> NotReturned,
      trace |-> <<>> ]

Init ==
    /\ req = [r \in Requests |-> InitLocals]
    /\ nextUuid = 1
    /\ storage = {}
    /\ documents = <<>>
    /\ files = {}
    /\ spawned = {}
    /\ dispatched = {}
    /\ api_usage_logs = {}
    /\ printed = 0

\* ------------------------------------------------------------- helpers

\* One external call of a request, as its trace records it: ok is FALSE when
\* the call raised or answered with an error envelope.
Ev(op, k, ok) == [op |-> op, k |-> k, ok |-> ok]

Traced(l, op, k, ok) == [l EXCEPT !.trace = Append(@, Ev(op, k, ok))]

\* raise Exception(msg), or an exception a collaborator raised: control goes
\* to the `except Exception` clause.
Raise(l, msg) ==
    [l EXCEPT !.pc = "except_general",
              !.exc = [type |-> "Exception", status_code |-> 0, detail |-> msg]]

\* raise HTTPException(status_code, detail): control goes to the
\* `except HTTPException` clause.
RaiseHTTP(l, code, detail) ==
    [l EXCEPT !.pc = "except_http",
              !.exc = [type |-> "HTTPException", status_code |-> code, detail |-> detail]]

\* `not auth_header`: the header is absent or the empty string.
HeaderMissing(h) == h = None \/ h = ""

\* What .eq("api_key", auth_header).single().execute() can do.  With a
\* matching row it returns the row.  With no matching row the client either
\* raises (PostgREST refuses a single-object request that selects no row) or
\* answers with empty data.  Any call may also raise on a transport failure.
LookupOutcomes(h) ==
    LET rows == {row \in api_keys : row.api_key = h}
    IN  IF rows = {}
        THEN {[kind |-> "raise"], [kind |-> "nodata"]}
        ELSE {[kind |-> "raise"]} \cup {[kind |-> "row", row |-> row] : row \in rows}

file_name(file_id) == <<file_id, ".txt">>

\* f"{team_id}/{file_name}"
StoragePath(team_id, file_id) == <<team_id, "/", file_name(file_id)>>

\* result.markdown.encode("utf-8")
Encode(markdown) == <<"utf-8", markdown>>

\* The metadata create_documents attaches to every chunk.
ChunkMetadata(url, file_id) == [source |-> url, file_id |-> file_id]

\* text_splitter.create_documents: n chunks of the markdown, in order.
CreateDocuments(markdown, n, url, file_id) ==
    [i \in 1..n |-> [page_content |-> <<markdown, i>>,
                     metadata |-> ChunkMetadata(url, file_id)]]

\* embeddings.aembed_documents([text])[0]
Embedding(text) == <<"embedding", text>>

document_data(chunk) ==
    [content |-> chunk.page_content,
     metadata |-> chunk.metadata,
     embedding |-> Embedding(chunk.page_content)]

\* file_data with a file_id of its own, drawn anew instead of reused.
file_data_second_uuid(l) ==
    [file_id |-> nextUuid,
     type |-> "web_scrape",
     file_name |-> file_name(nextUuid),
     team_id |-> l.team_id,
     storage_path |-> StoragePath(l.team_id, nextUuid)]

file_data(l) ==
    [file_id |-> l.file_id,
     type |-> "web_scrape",
     file_name |-> file_name(l.file_id),
     team_id |-> l.team_id,
     storage_path |-> StoragePath(l.team_id, l.file_id)]

response_data(l) ==
    [markdown |-> l.markdown,
     chunks |-> [i \in 1..Len(l.chunks) |->
                    [text |-> l.chunks[i].page_content,
                     metadata |-> l.chunks[i].metadata]],
     file_id |-> l.file_id,
     storage_path |-> StoragePath(l.team_id, l.file_id)]

usage_data(l) ==
    [user_id |-> l.response.user_id,
     endpoint |-> "/web_scrape",
     success |-> TRUE,
     error |-> None]

error_usage_data(l) ==
    [user_id |-> IF l.response.bound /\ l.response.data
                 THEN l.response.user_id ELSE None,
     endpoint |-> "/web_scrape",
     success |-> FALSE,
     error |-> l.exc.detail]

\* The body the `except HTTPException` clause returns.
HTTPErrorBody(e) == [error |-> e.detail, status_code |-> e.status_code]

\* The body the `except Exception` clause returns.
ErrorBody(e) == [error |-> e.detail]

Returned(body) == [kind |-> "body", body |-> body]

\* The exception left the handler: the framework answers, not scrape_url.
Unhandled == [kind |-> "unhandled"]

\* Where the handler goes once the upload succeeded, and after each Document.
AfterUpload(l) == IF Len(l.chunks) >= 1 THEN "embed" ELSE "insert_file"

\* AfterDocument leaving the chunk loop after its first Document.
AfterDocument_first_only(l) == "insert_file"

AfterDocument(l) == IF l.k + 1 <= Len(l.chunks) THEN "embed" ELSE "insert_file"

\* ------------------------------------------------------------- actions

Set(r, l) == req' = [req EXCEPT ![r] = l]

\* log_api_usage.spawn(entry) returned: the call is on its way.
Spawn(entry) ==
    /\ spawned' = spawned \cup {entry}
    /\ dispatched' = dispatched \cup {entry}

\* A POST /web_scrape arrives with its Authorization header and body.
Receive(r) ==
    /\ req[r].pc = "idle"
    /\ \E h \in Headers, u \in Urls :
          Set(r, [req[r] EXCEPT !.pc = "check_header", !.auth_header = h, !.url = u])
    /\ UNCHANGED <<stores, logger>>

\* Lines 61-72: the two header checks.
CheckHeader(r) ==
    LET l == req[r] IN
    /\ l.pc = "check_header"
    /\ IF HeaderMissing(l.auth_header)
       THEN Set(r, RaiseHTTP(l, 401, "Authorization header is required"))
       ELSE IF ~UUIDParses(l.auth_header)
            THEN Set(r, RaiseHTTP(l, 401, "Invalid authorization header format"))
            ELSE Set(r, [l EXCEPT !.pc = "lookup"])
    /\ UNCHANGED <<stores, logger>>

\* Lines 75-86: the api_keys query and the check of what it returned.
Lookup(r) ==
    LET l == req[r] IN
    /\ l.pc = "lookup"
    /\ \E out \in LookupOutcomes(l.auth_header) :
          IF out.kind = "raise"
          THEN Set(r, Raise(Traced(l, "lookup", 0, FALSE), LookupErr))
          ELSE LET resp == IF out.kind = "row"
                           THEN [bound |-> TRUE, data |-> TRUE,
                                 team_id |-> out.row.team_id,
                                 user_id |-> out.row.user_id]
                           ELSE [bound |-> TRUE, data |-> FALSE,
                                 team_id |-> None, user_id |-> None]
                   got == [Traced(l, "lookup", 0, TRUE) EXCEPT !.response = resp]
               IN  IF ~resp.data \/ resp.team_id = None
                   THEN Set(r, RaiseHTTP(got, 401, "Invalid API key"))
                   ELSE Set(r, [got EXCEPT !.pc = "fetch", !.team_id = resp.team_id])
    /\ UNCHANGED <<stores, logger>>

\* Lines 88-95: the crawler run.  It raises, or returns a result whose
\* markdown is the page's text, or None when the crawl did not succeed.
Fetch(r) ==
    LET l == req[r] IN
    /\ l.pc = "fetch"
    /\ \/ Set(r, Raise(Traced(l, "fetch", 0, FALSE), FetchErr))
       \/ \E m \in Markdowns \cup {None} :
             Set(r, [Traced(l, "fetch", 0, m # None) EXCEPT !.pc = "chunk", !.markdown = m])
    /\ UNCHANGED <<stores, logger>>

\* Lines 97-109: the file_id, then the splitter.  The splitter raises on a
\* markdown of None and on parameters it rejects.
Chunk(r) ==
    LET l == [req[r] EXCEPT !.file_id = nextUuid] IN
    /\ l.pc = "chunk"
    /\ nextUuid' = nextUuid + 1
    /\ \/ Set(r, Raise(Traced(l, "chunk", 0, FALSE), SplitErr))
       \/ /\ l.markdown # None
          /\ \E n \in 0..MaxChunks :
                Set(r, [Traced(l, "chunk", n, TRUE) EXCEPT
                           !.pc = "upload",
                           !.chunks = CreateDocuments(l.markdown, n, l.url, l.file_id)])
    /\ UNCHANGED <<storage, documents, files, logger>>

\* Lines 111-118: the storage upload.
Upload(r) ==
    LET l == req[r] IN
    /\ l.pc = "upload"
    /\ \/ /\ storage' = storage \cup
                 {[path |-> StoragePath(l.team_id, l.file_id),
                   file |-> Encode(l.markdown),
                   content_type |-> "text/plain"]}
          /\ Set(r, [Traced(l, "upload", 0, TRUE) EXCEPT !.pc = AfterUpload(l)])
       \/ /\ \E msg \in {UploadErr, "Storage upload failed: backend error"} :
                Set(r, Raise(Traced(l, "upload", 0, FALSE), msg))
          /\ UNCHANGED storage
    /\ UNCHANGED <<nextUuid, documents, files, logger>>

\* Lines 126-128: the embedding of chunk k.
Embed(r) ==
    LET l == req[r] IN
    /\ l.pc = "embed"
    /\ \/ Set(r, [Traced(l, "embed", l.k, TRUE) EXCEPT !.pc = "insert_doc"])
       \/ Set(r, Raise(Traced(l, "embed", l.k, FALSE), EmbedErr))
    /\ UNCHANGED <<stores, logger>>

\* Lines 129-138: the Document insert of chunk k, then on to the next chunk.
InsertDocument(r) ==
    LET l == req[r] IN
    /\ l.pc = "insert_doc"
    /\ \/ /\ documents' = Append(documents, document_data(l.chunks[l.k]))
          /\ Set(r, [Traced(l, "document", l.k, TRUE) EXCEPT
                        !.pc = AfterDocument(l), !.k = l.k + 1])
       \/ /\ \E msg \in {DocErr, "Document insertion failed: backend error"} :
                Set(r, Raise(Traced(l, "document", l.k, FALSE), msg))
          /\ UNCHANGED documents
    /\ UNCHANGED <<nextUuid, storage, files, logger>>

\* Lines 141-152: the File record insert.
InsertFile(r) ==
    LET l == req[r] IN
    /\ l.pc = "insert_file"
    /\ \/ /\ files' = files \cup {file_data(l)}
          /\ Set(r, [Traced(l, "file", 0, TRUE) EXCEPT !.pc = "respond"])
       \/ /\ \E msg \in {FileErr, "File data storage failed: backend error"} :
                Set(r, Raise(Traced(l, "file", 0, FALSE), msg))
          /\ UNCHANGED files
    /\ UNCHANGED <<nextUuid, storage, documents, logger>>

\* Lines 154-174: the success body, the usage entry and its dispatch.  The
\* spawn is inside the try block: when it raises, `except Exception` runs.
Respond(r) ==
    LET l == req[r] IN
    /\ l.pc = "respond"
    /\ \/ /\ Spawn([by |-> r, usage |-> usage_data(l)])
          /\ Set(r, [Traced(l, "spawn", 0, TRUE) EXCEPT
                        !.pc = "done", !.returned = Returned(response_data(l))])
       \/ /\ Set(r, Raise(Traced(l, "spawn", 0, FALSE), SpawnErr))
          /\ UNCHANGED <<spawned, dispatched>>
    /\ UNCHANGED <<stores, api_usage_logs, printed>>

\* Lines 175-188.  A spawn that raises here leaves the handler unhandled.
ExceptHTTP(r) ==
    LET l == req[r] IN
    /\ l.pc = "except_http"
    /\ \/ /\ Spawn([by |-> r, usage |-> error_usage_data(l)])
          /\ Set(r, [Traced(l, "spawn", 0, TRUE) EXCEPT
                        !.pc = "done", !.returned = Returned(HTTPErrorBody(l.exc))])
       \/ /\ Set(r, [Traced(l, "spawn", 0, FALSE) EXCEPT
                        !.pc = "done", !.returned = Unhandled])
          /\ UNCHANGED <<spawned, dispatched>>
    /\ UNCHANGED <<stores, api_usage_logs, printed>>

\* Lines 189-202.  A spawn that raises here leaves the handler unhandled.
ExceptGeneral(r) ==
    LET l == req[r] IN
    /\ l.pc = "except_general"
    /\ \/ /\ Spawn([by |-> r, usage |-> error_usage_data(l)])
          /\ Set(r, [Traced(l, "spawn", 0, TRUE) EXCEPT
                        !.pc = "done", !.returned = Returned(ErrorBody(l.exc))])
       \/ /\ Set(r, [Traced(l, "spawn", 0, FALSE) EXCEPT
                        !.pc = "done", !.returned = Unhandled])
          /\ UNCHANGED <<spawned, dispatched>>
    /\ UNCHANGED <<stores, api_usage_logs, printed>>

\* Lines 36-48: log_api_usage runs one dispatched call.  A failed insert is
\* printed and the call ends all the same.
LogApiUsage ==
    \E e \in spawned :
       /\ spawned' = spawned \ {e}
       /\ UNCHANGED dispatched
       /\ \/ /\ api_usage_logs' = api_usage_logs \cup {e}
             /\ UNCHANGED printed
          \/ /\ printed' = printed + 1
             /\ UNCHANGED api_usage_logs
       /\ UNCHANGED <<req, stores>>

Next ==
    \/ \E r \in Requests : Receive(r)
    \/ \E r \in Requests : CheckHeader(r)
    \/ \E r \in Requests : Lookup(r)
    \/ \E r \in Requests : Fetch(r)
    \/ \E r \in Requests : Chunk(r)
    \/ \E r \in Requests : Upload(r)
    \/ \E r \in Requests : Embed(r)
    \/ \E r \in Requests : InsertDocument(r)
    \/ \E r \in Requests : InsertFile(r)
    \/ \E r \in Requests : Respond(r)
    \/ \E r \in Requests : ExceptHTTP(r)
    \/ \E r \in Requests : ExceptGeneral(r)
    \/ LogApiUsage

Spec == Init /\ [][Next]_vars

\* ------------------------------------------------ vocabulary of the claims

Finished(l) == l.pc = "done"

\* The external calls of kind op the request made, and those that succeeded.
Attempted(l, op) == \E i \in 1..Len(l.trace) : l.trace[i].op = op

Did(l, op) == \E i \in 1..Len(l.trace) : l.trace[i].op = op /\ l.trace[i].ok

Failed(l, op) == \E i \in 1..Len(l.trace) : l.trace[i].op = op /\ ~l.trace[i].ok

SpawnCalls(l) == Cardinality({i \in 1..Len(l.trace) : l.trace[i].op = "spawn"})

Wrote(l) == Attempted(l, "upload") \/ Attempted(l, "document") \/ Attempted(l, "file")

IsSuccessBody(ret) == ret.kind = "body" /\ "file_id" \in DOMAIN ret.body

IsErrorBody(ret) == ret.kind = "body" /\ DOMAIN ret.body = {"error"}

RowsOf(h) == {row \in api_keys : row.api_key = h}

\* The Document rows that carry a file_id, in insertion order.
IsOfFile(d, fid) == d.metadata.file_id = fid

DocsOf(fid) == SelectSeq(documents, LAMBDA d : IsOfFile(d, fid))

FilesOf(fid) == {f \in files : f.file_id = fid}

ObjectsAt(path) == {o \in storage : o.path = path}

\* "{team_id}/{file_id}.txt", spelled out.
PathForm(team, fid) == <<team, "/", <<fid, ".txt">>>>

\* ------------------------------------------------------------------ claims

InvalidKeyBody == [error |-> "Invalid API key", status_code |-> 401]

HeaderRequiredBody == [error |-> "Authorization header is required", status_code |-> 401]

HeaderFormatBody == [error |-> "Invalid authorization header format", status_code |-> 401]

\* The handler's own dispatch of the usage entry never raised in this request.
SpawnHeld(l) == ~Failed(l, "spawn")

\* C1: a request whose Authorization header is a well-formed UUID that matches
\* no api_keys row, or a row without team_id, is answered with exactly
\* {"error": "Invalid API key", "status_code": 401}.
C1_UnknownKeyAnswered ==
    \A r \in Requests :
       LET l == req[r] IN
       (/\ Finished(l)
        /\ UUIDParses(l.auth_header)
        /\ \A row \in RowsOf(l.auth_header) : row.team_id = None)
       => l.returned = Returned(InvalidKeyBody)

\* C1, in the runs where no usage dispatch raised: the answer still differs
\* when the lookup itself raises on the missing row.
C1_UnknownKeyAnswered_SpawnHeld ==
    \A r \in Requests :
       LET l == req[r] IN
       (/\ Finished(l)
        /\ SpawnHeld(l)
        /\ UUIDParses(l.auth_header)
        /\ \A row \in RowsOf(l.auth_header) : row.team_id = None)
       => l.returned = Returned(InvalidKeyBody)

\* C1, in the runs where neither a usage dispatch nor the lookup raised: the
\* check of line 83 then answers as the claim says.
C1_UnknownKeyAnswered_LookupReturned ==
    \A r \in Requests :
       LET l == req[r] IN
       (/\ Finished(l)
        /\ SpawnHeld(l)
        /\ Did(l, "lookup")
        /\ UUIDParses(l.auth_header)
        /\ \A row \in RowsOf(l.auth_header) : row.team_id = None)
       => l.returned = Returned(InvalidKeyBody)

\* C2: the header checks come before the key store is queried: an absent
\* header is answered with "Authorization header is required", a present
\* header that is no well-formed UUID with "Invalid authorization header
\* format", both with status_code 401 and without any api_keys lookup.
C2_HeaderChecksFirst ==
    \A r \in Requests :
       LET l == req[r] IN
       Finished(l) =>
          /\ l.auth_header = None =>
                l.returned = Returned(HeaderRequiredBody) /\ ~Attempted(l, "lookup")
          /\ (l.auth_header # None /\ ~UUIDParses(l.auth_header)) =>
                l.returned = Returned(HeaderFormatBody) /\ ~Attempted(l, "lookup")

\* C2, in the runs where no usage dispatch raised and with the empty header
\* counted as absent, which is how line 62 treats it.
C2_HeaderChecksFirst_SpawnHeld ==
    \A r \in Requests :
       LET l == req[r] IN
       (Finished(l) /\ SpawnHeld(l)) =>
          /\ HeaderMissing(l.auth_header) =>
                l.returned = Returned(HeaderRequiredBody) /\ ~Attempted(l, "lookup")
          /\ (~HeaderMissing(l.auth_header) /\ ~UUIDParses(l.auth_header)) =>
                l.returned = Returned(HeaderFormatBody) /\ ~Attempted(l, "lookup")

\* C2, only its last part, which holds whatever the dispatch does: no
\* request with an absent or malformed header ever queries api_keys.
C2_NoLookupOnBadHeader ==
    \A r \in Requests :
       LET l == req[r] IN
       (l.pc # "idle" /\ (HeaderMissing(l.auth_header) \/ ~UUIDParses(l.auth_header)))
          => ~Attempted(l, "lookup")

\* C3: no upload, Document insert or File insert is performed for a request
\* unless its authentication and its page fetch succeeded; a request whose
\* fetch fails ends with a body {"error": <message>} without file_id and has
\* written nothing.
C3_NoWritesWithoutFetch ==
    \A r \in Requests :
       LET l == req[r] IN
       /\ Wrote(l) => (Did(l, "lookup") /\ l.team_id # None /\ Did(l, "fetch"))
       /\ (Finished(l) /\ Failed(l, "fetch")) => (IsErrorBody(l.returned) /\ ~Wrote(l))

\* C3, in the runs where no usage dispatch raised.
C3_NoWritesWithoutFetch_SpawnHeld ==
    \A r \in Requests :
       LET l == req[r] IN
       /\ Wrote(l) => (Did(l, "lookup") /\ l.team_id # None /\ Did(l, "fetch"))
       /\ (Finished(l) /\ SpawnHeld(l) /\ Failed(l, "fetch"))
             => (IsErrorBody(l.returned) /\ ~Wrote(l))

\* C4: when the embedding or the Document insert of chunk k fails, the
\* Documents the request wrote are exactly chunks 1..k-1 in chunking order,
\* what was written stays (the uploaded object, those Documents), no File
\* record is written and the response is {"error": <message>}.
C4_PartialDocumentsKept ==
    \A r \in Requests :
       LET l == req[r] IN
       Finished(l) =>
          \A i \in 1..Len(l.trace) :
             (l.trace[i].op \in {"embed", "document"} /\ ~l.trace[i].ok) =>
                /\ DocsOf(l.file_id) =
                      [j \in 1..(l.trace[i].k - 1) |-> document_data(l.chunks[j])]
                /\ ObjectsAt(PathForm(l.team_id, l.file_id)) # {}
                /\ FilesOf(l.file_id) = {}
                /\ IsErrorBody(l.returned)

\* C4, in the runs where no usage dispatch raised.
C4_PartialDocumentsKept_SpawnHeld ==
    \A r \in Requests :
       LET l == req[r] IN
       (Finished(l) /\ SpawnHeld(l)) =>
          \A i \in 1..Len(l.trace) :
             (l.trace[i].op \in {"embed", "document"} /\ ~l.trace[i].ok) =>
                /\ DocsOf(l.file_id) =
                      [j \in 1..(l.trace[i].k - 1) |-> document_data(l.chunks[j])]
                /\ ObjectsAt(PathForm(l.team_id, l.file_id)) # {}
                /\ FilesOf(l.file_id) = {}
                /\ IsErrorBody(l.returned)

\* No step removes or rewrites anything the stores hold.
StoresOnlyGrow ==
    [][/\ storage \subseteq storage'
       /\ files \subseteq files'
       /\ Len(documents) <= Len(documents')
       /\ SubSeq(documents', 1, Len(documents)) = documents]_vars

\* C5: in every success response, storage_path is "{team_id}/{file_id}.txt"
\* for the team_id of the caller's key, the uploaded object and the File
\* record carry that same path, the File record carries the response's
\* file_id, and so does the metadata of every chunk, in the response and in
\* the Document records.
C5_FileIdThreaded ==
    \A r \in Requests :
       LET l == req[r] IN
       IsSuccessBody(l.returned) =>
          LET b == l.returned.body IN
          /\ \E row \in RowsOf(l.auth_header) :
                b.storage_path = PathForm(row.team_id, b.file_id)
          /\ ObjectsAt(b.storage_path) # {}
          /\ \E f \in files : f.file_id = b.file_id
          /\ \A f \in files :
                (f.file_id = b.file_id \/ f.storage_path = b.storage_path)
                   => (f.file_id = b.file_id /\ f.storage_path = b.storage_path)
          /\ \A i \in 1..Len(b.chunks) : b.chunks[i].metadata.file_id = b.file_id
          /\ Len(DocsOf(b.file_id)) = Len(b.chunks)
          /\ \A i \in 1..Len(b.chunks) :
                /\ DocsOf(b.file_id)[i].content = b.chunks[i].text
                /\ DocsOf(b.file_id)[i].metadata = b.chunks[i].metadata

\* C5 witness: two requests were both answered with a success body, one of
\* them with two chunks.
C5_Witness ==
    /\ \A r \in Requests : IsSuccessBody(req[r].returned)
    /\ \E r \in Requests : Len(req[r].returned.body.chunks) >= 2

\* The stage an external call belongs to, numbered as the specification
\* orders the stages: Authenticator, Content Fetcher, Persister (the upload,
\* then the File record), Chunker, Embedder, Document Store Writer.
StatedStage(op) ==
    CASE op = "lookup" -> 1
      [] op = "fetch" -> 2
      [] op = "upload" -> 3
      [] op = "file" -> 4
      [] op = "chunk" -> 5
      [] op = "embed" -> 6
      [] op = "document" -> 6
      [] OTHER -> 7

\* The same calls numbered as the handler makes them: the Chunker before the
\* upload, the File record after the chunk loop.
CodeStage(op) ==
    CASE op = "lookup" -> 1
      [] op = "fetch" -> 2
      [] op = "chunk" -> 3
      [] op = "upload" -> 4
      [] op = "embed" -> 5
      [] op = "document" -> 5
      [] op = "file" -> 6
      [] OTHER -> 7

\* C6 as stated: the calls of a request follow the stated stage order, so the
\* File record insert comes after the upload and before the first Document
\* insert.
C6_StatedStageOrder ==
    \A r \in Requests :
       LET t == req[r].trace IN
       \A i, j \in 1..Len(t) :
          i < j => StatedStage(t[i].op) <= StatedStage(t[j].op)

\* C6 amended: the calls of a request follow the order Authenticator,
\* Content Fetcher, Chunker, storage upload, then per chunk Embedder and
\* Document Store Writer, then the File record insert; the File record insert
\* comes after the successful upload and after the Document insert of every
\* chunk, each chunk being embedded right before it is inserted.
C6_CodeStageOrder ==
    \A r \in Requests :
       LET l == req[r]
           t == l.trace
       IN  /\ \A i, j \in 1..Len(t) :
                 i < j => CodeStage(t[i].op) <= CodeStage(t[j].op)
           /\ \A i \in 1..Len(t) :
                 t[i].op = "document" =>
                    /\ i > 1
                    /\ t[i - 1] = Ev("embed", t[i].k, TRUE)
           /\ \A i \in 1..Len(t) :
                 t[i].op = "file" =>
                    /\ \E u \in 1..(i - 1) : t[u] = Ev("upload", 0, TRUE)
                    /\ \A k \in 1..Len(l.chunks) :
                          \E d \in 1..(i - 1) : t[d] = Ev("document", k, TRUE)

\* C6 witness: a request inserted its File record after two Documents.
C6_Witness ==
    \E r \in Requests :
       /\ Did(req[r], "file")
       /\ Len(req[r].chunks) >= 2

\* C7: every finished request made exactly one spawn call, which dispatched
\* one usage entry; the entry's success flag is true exactly when the
\* response is the success body, and otherwise its error is the response's
\* error message.
C7_OneUsageEntry ==
    \A r \in Requests :
       LET l == req[r]
           mine == {e \in dispatched : e.by = r}
       IN  Finished(l) =>
              /\ SpawnCalls(l) = 1
              /\ Cardinality(mine) = 1
              /\ \A e \in mine :
                    /\ e.usage.success <=> IsSuccessBody(l.returned)
                    /\ ~e.usage.success =>
                          (l.returned.kind = "body" /\ e.usage.error = l.returned.body.error)

\* C7, in the runs where no usage dispatch raised.
C7_OneUsageEntry_SpawnHeld ==
    \A r \in Requests :
       LET l == req[r]
           mine == {e \in dispatched : e.by = r}
       IN  (Finished(l) /\ SpawnHeld(l)) =>
              /\ SpawnCalls(l) = 1
              /\ Cardinality(mine) = 1
              /\ \A e \in mine :
                    /\ e.usage.success <=> IsSuccessBody(l.returned)
                    /\ ~e.usage.success =>
                          (l.returned.kind = "body" /\ e.usage.error = l.returned.body.error)

\* The body the pipeline's outcome calls for, the usage logging left aside:
\* the success body once the File record is in, else the body of the clause
\* that caught the pipeline's exception.
PipelineBody(l) ==
    IF Did(l, "file") THEN response_data(l)
    ELSE IF l.exc.type = "HTTPException" THEN HTTPErrorBody(l.exc)
    ELSE ErrorBody(l.exc)

\* C8: usage logging never affects the caller: whatever the spawn dispatch
\* and the api_usage_logs insert do, the caller receives the body the
\* pipeline's outcome calls for.
C8_LoggingLeavesResponse ==
    \A r \in Requests :
       LET l == req[r] IN
       Finished(l) => l.returned = Returned(PipelineBody(l))

\* C8, in the runs where no usage dispatch raised: the insert inside
\* log_api_usage, failing or not, leaves every response as it is.
C8_LoggingLeavesResponse_SpawnHeld ==
    \A r \in Requests :
       LET l == req[r] IN
       (Finished(l) /\ SpawnHeld(l)) => l.returned = Returned(PipelineBody(l))

\* C8, its other parts: log_api_usage touches no request, each dispatched
\* call runs once and is gone whether its insert failed or not, and a
\* request can be answered while its usage entry is still waiting.
C8_LogRunsOnceApart ==
    [][LogApiUsage => (req' = req /\ spawned' \subseteq spawned /\ spawned' # spawned)]_vars

C8_AnsweredBeforeLogged ==
    \E r \in Requests :
       /\ Finished(req[r])
       /\ \E e \in spawned : e.by = r

\* C10: a File record exists for a request's file_id exactly when the request
\* returned the success body; with a success body of n chunks the object is
\* uploaded, exactly n Documents carry the file_id, in the response's order,
\* and exactly one File record carries it; a request that returned an error
\* body inserted no File record.
C10_FileRecordIffSuccess ==
    \A r \in Requests :
       LET l == req[r] IN
       (Finished(l) /\ l.file_id # 0) =>
          /\ FilesOf(l.file_id) # {} <=> IsSuccessBody(l.returned)
          /\ Did(l, "file") <=> IsSuccessBody(l.returned)
          /\ IsSuccessBody(l.returned) =>
                LET b == l.returned.body IN
                /\ ObjectsAt(b.storage_path) # {}
                /\ Len(DocsOf(b.file_id)) = Len(b.chunks)
                /\ \A i \in 1..Len(b.chunks) : DocsOf(b.file_id)[i].content = b.chunks[i].text
                /\ Cardinality(FilesOf(b.file_id)) = 1

\* C10, in the runs where no usage dispatch raised.
C10_FileRecordIffSuccess_SpawnHeld ==
    \A r \in Requests :
       LET l == req[r] IN
       (Finished(l) /\ SpawnHeld(l) /\ l.file_id # 0) =>
          /\ FilesOf(l.file_id) # {} <=> IsSuccessBody(l.returned)
          /\ Did(l, "file") <=> IsSuccessBody(l.returned)
          /\ IsSuccessBody(l.returned) =>
                LET b == l.returned.body IN
                /\ ObjectsAt(b.storage_path) # {}
                /\ Len(DocsOf(b.file_id)) = Len(b.chunks)
                /\ \A i \in 1..Len(b.chunks) : DocsOf(b.file_id)[i].content = b.chunks[i].text
                /\ Cardinality(FilesOf(b.file_id)) = 1

====
